---- MODULE Spec2Model ----
(***************************************************************************)
(* Field Reporter: the App shell (report list, active report, sync status, *)
(* debounced autosave), the ReportEditor / ReportPointCard handlers, the   *)
(* ReportList handlers and the Firestore / Storage gateways.               *)
(*                                                                         *)
(* React closures are modelled explicitly: a handler invoked by the user   *)
(* runs with the values of the latest render, while a timer callback or    *)
(* the continuation of an await runs with the values captured when it was  *)
(* created.  saveToDb is re-created whenever syncStatus changes, and so is *)
(* the debounced wrapper around it (useCallback(debounce(saveToDb), ...)): *)
(* every such wrapper owns its own timeout variable.                       *)
(***************************************************************************)
EXTENDS Integers, Sequences, FiniteSets, TLC

\* ---------------------------------------------------------------- bounds
\* The number of user operations (clicks, edits) in one behaviour.
MaxOps == 5
\* The number of those that edit a report.
MaxEdits == 2
\* The number of files picked at once for one point.
MaxFiles == 2

\* The points of an exported report, the images of an exported report, and
\* the lines of a long point text.
MaxPoints == 2

MaxImages == 2

LongText == 40

\* The characters of the title of an exported report.
MaxTitle == 3

\* ------------------------------------------------------------- constants
currentUserId == "u1"
NoId == "none"
NoReport == [id |-> NoId]
Texts == {"", "a", "b"}
Titles == {"New Visit Report", "Site A"}
SyncStatuses == {"saved", "saving", "unsaved"}

\* A path that leaves the report out: images/{userId}/{imageName}.
imagePath_noReport(userId, reportId, imageName) ==
  [userId |-> userId, reportId |-> NoId, name |-> imageName]

\* uploadImage: the path of the blob, images/{userId}/{reportId}/{imageName}.
imagePath(userId, reportId, imageName) ==
  [userId |-> userId, reportId |-> reportId, name |-> imageName]

\* A point and a report as declared in types.ts.
ReportPoint(id, text, imagePaths) ==
  [id |-> id, text |-> text, imagePaths |-> imagePaths]

Report(id, userId, title, createdAt, points) ==
  [id |-> id, userId |-> userId, title |-> title, createdAt |-> createdAt,
   points |-> points]

\* The records the store holds when the user signs in.
InitialReports ==
  << Report("r1", "u1", "New Visit Report", 0, << ReportPoint(0, "", <<>>) >>),
     Report("r2", "u2", "New Visit Report", -1,
            << ReportPoint(0, "", << imagePath("u2", "r2", 0) >>) >>) >>

ReportIds == {"r1", "r2"}

\* createReport: id: `report-${Date.now()}`
newReportId(t) == "report-" \o ToString(t)

\* The document ids of the collection: the loaded ones and those createReport
\* can make within one behaviour.
DocIds == ReportIds \cup {newReportId(t) : t \in 1..(MaxOps + 1)}

VARIABLES
  reports,         \* App: reports
  activeReportId,  \* App: activeReportId
  syncStatus,      \* App: syncStatus
  toast,           \* App: toast.message, the last message shown ("" before any)
  gen,             \* identity of the current saveToDb / debouncedSave pair
  timers,          \* pending debounce timeouts, oldest first
  inflight,        \* saveReport calls awaiting the store, oldest first
  deletes,         \* deleteReport calls awaiting the store, oldest first
  deletingId,      \* ReportList: deletingId
  uploads,         \* image uploads in progress (ReportPointCard)
  nUploads,        \* number of names uploadImage has generated
  store,           \* Firestore collection 'reports': id -> record
  blobs,           \* Firebase Storage: the paths that hold a blob
  now,             \* the last value Date.now() returned
  ops,             \* number of user operations so far
  edits,           \* number of those that edited a report
  history,         \* history variable: what the last handler did (see Did)
  budget,          \* the numbers of operations one behaviour may make
  isCreating,      \* ReportList: isCreating
  sent,            \* history variable: the uploadImage calls made so far
  camera,          \* CameraModal of the card whose camera is open
  boot,            \* dbService module state and App start-up state
  export,          \* a run of generatePdf / generateDocx
  img              \* a run of compressImageFile

appVars == << reports, activeReportId, syncStatus, toast, gen, timers, inflight,
              deletes, deletingId, uploads, nUploads, store, blobs, now, ops, edits,
              history >>

extVars == << budget, isCreating, sent, camera, boot, export, img >>

vars == << appVars, extVars >>

\* ---------------------------------------------------------------- helpers
Last(s) == s[Len(s)]

\* reports.find(r => r.id === id)
Find(rs, id) ==
  IF \E i \in DOMAIN rs : rs[i].id = id
  THEN rs[CHOOSE i \in DOMAIN rs : rs[i].id = id /\ \A j \in 1..(i-1) : rs[j].id # id]
  ELSE NoReport

\* const activeReport = reports.find(r => r.id === activeReportId)
activeReport == Find(reports, activeReportId)

\* renderContent: the editor is shown when activeReportId && activeReport,
\* the list otherwise.
EditorShown == activeReportId # NoId /\ activeReport # NoReport

\* ReportEditor: localReport follows the report prop (useEffect) and every
\* handleLocalUpdate writes both, so the two are the same record.
localReport == activeReport

\* const isOwner = localReport.userId === currentUserId
isOwner == localReport.userId = currentUserId

\* The closure of the latest render: the syncStatus saveToDb captured and the
\* debounced wrapper built around that saveToDb.
Rendered == [st |-> syncStatus, inst |-> gen]

\* ------------------------------------------------------- sync controller
\* saveToDb: returns without a call when the captured status is 'saving'.
saveToDb(closStatus, report) ==
  IF closStatus = "saving"
  THEN [sets |-> <<>>, put |-> NoReport]
  ELSE [sets |-> <<"saving">>, put |-> report]

\* debounced.cancel(): clears the timeout of this wrapper only.
cancel(tm, inst) == SelectSeq(tm, LAMBDA t : t.inst # inst)

\* debounced(...args): clears this wrapper's timeout and sets a new one.
debounced(tm, clos, report) ==
  Append(cancel(tm, clos.inst), [inst |-> clos.inst, st |-> clos.st, rep |-> report])

\* updateReport(updatedReport, options) run with the closure clos.
updateReport(updatedReport, immediate, clos) ==
  LET s == saveToDb(clos.st, updatedReport) IN
  [ reports |-> [i \in DOMAIN reports |->
                   IF reports[i].id = updatedReport.id THEN updatedReport
                   ELSE reports[i]],
    sets    |-> IF immediate THEN <<"unsaved">> \o s.sets ELSE <<"unsaved">>,
    timers  |-> IF immediate THEN cancel(timers, clos.inst)
                ELSE debounced(timers, clos, updatedReport),
    put     |-> IF immediate THEN s.put ELSE NoReport ]

\* The ReportPointCard of point pid of report rid is on screen (the editor
\* renders one card per point of localReport, keyed by point.id).
CardShown(rs, act, rid, pid) ==
  /\ act = rid
  /\ Find(rs, rid) # NoReport
  /\ \E i \in DOMAIN Find(rs, rid).points : Find(rs, rid).points[i].id = pid

\* The value of syncStatus after a batch of setSyncStatus calls.
StatusAfter(sets) == IF sets = <<>> THEN syncStatus ELSE Last(sets)

\* useCallback(..., [syncStatus]): a new saveToDb, hence a new debounced
\* wrapper, exactly when the rendered syncStatus differs from the previous
\* one.  Wrapper identities are kept as ranks among those still referenced.
InstsUsed(tm, ups, g) ==
  {g} \cup {tm[i].inst : i \in DOMAIN tm} \cup {ups[i].clos.inst : i \in DOMAIN ups}

Rank(used, n) == Cardinality({m \in used : m < n})

\* The state of the sync controller after a handler that called
\* setSyncStatus with `sets`, left the timeouts `tm` and the uploads `ups`.
Render(sets, tm, ups) ==
  LET g    == IF StatusAfter(sets) # syncStatus THEN gen + 1 ELSE gen
      used == InstsUsed(tm, ups, g)
  IN /\ syncStatus' = StatusAfter(sets)
     /\ gen' = Rank(used, g)
     /\ timers' = [i \in DOMAIN tm |-> [tm[i] EXCEPT !.inst = Rank(used, tm[i].inst)]]
     /\ uploads' = [i \in DOMAIN ups |->
                      [ups[i] EXCEPT !.clos.inst = Rank(used, ups[i].clos.inst),
                                     !.card = @ /\ CardShown(reports', activeReportId',
                                                             ups[i].rep.id, ups[i].pid)]]

\* The same when the handler leaves the sync controller alone.
NoSync == Render(<<>>, timers, uploads)

\* The cleanup of CameraModal's effect, run at unmount: it stops the tracks
\* of the stream it closed over, if that is not null.  camera.cleanup is
\* that stream (an index of camera.streams), 0 for null.
Unmount(c) ==
  IF c.cleanup # 0
  THEN [c EXCEPT !.open = FALSE, !.streams[c.cleanup] = "stopped"]
  ELSE [c EXCEPT !.open = FALSE]

\* The camera after a handler of the App or the editor: the modal unmounts
\* with its card.
CameraAfter ==
  IF camera.open /\ ~CardShown(reports', activeReportId', camera.rid, camera.pid)
  THEN Unmount(camera)
  ELSE camera

\* What a handler of the App or the editor leaves of the state outside App.
KeepExt ==
  /\ UNCHANGED << budget, isCreating, sent, boot, export, img >>
  /\ camera' = CameraAfter

\* The idle values of the camera, the start-up, the export and the compressor.
NoCamera ==
  [open |-> FALSE, rid |-> NoId, pid |-> 0, isLoading |-> FALSE, error |-> FALSE,
   capturedImage |-> FALSE, cleanup |-> 0, streams |-> <<>>]

\* firebaseConfig: the connection parameters read from the environment.
Params ==
  {"apiKey", "authDomain", "projectId", "storageBucket", "messagingSenderId", "appId"}

Booted ==
  [config |-> [p \in Params |-> TRUE], effect |-> TRUE, authLoading |-> FALSE,
   isDbInitialized |-> TRUE, user |-> currentUserId, isLoading |-> FALSE,
   fetching |-> FALSE, calls |-> 0]

NoExport ==
  [kind |-> "none", rep |-> <<>>, pc |-> "idle", i |-> 0, j |-> 0, currentY |-> 0,
   pages |-> 0, out |-> <<>>, failed |-> {}, result |-> "none", title |-> <<>>,
   file |-> <<>>]

NoImg ==
  [phase |-> "none", width |-> 0, height |-> 0, canvas |-> [width |-> 0, height |-> 0]]

\* The history after a handler: its name, its setSyncStatus calls in order,
\* the number of saveReport calls saveToDb has started so far, whether a
\* flush has failed with no user operation or completed upload since, and
\* whether all the user has done so far is open one report and make one
\* burst of point-text edits: every edit after the first came while the
\* timeout set by the previous edit was still pending (timeouts fire oldest
\* first, and in such a behaviour only the edits set them).
AsyncOps ==
  {"timer", "saved", "saveFailed", "deleted", "deleteFailed", "uploadFailed",
   "uploadPart", "uploadPartFailed", "created", "createFailed"}

Did(op, sets, put) ==
  [op     |-> op,
   sets   |-> sets,
   puts   |-> IF put # NoReport THEN history.puts + 1 ELSE history.puts,
   failed |-> IF op = "saveFailed" THEN TRUE
              ELSE IF op \in AsyncOps THEN history.failed
              ELSE FALSE,
   burst  |-> IF op \in AsyncOps THEN history.burst
              ELSE IF op = "onSelectReport" THEN history.burst /\ ops = 0
              ELSE IF op = "updateText"
                   THEN history.burst /\ (edits = 0 \/ timers # <<>>)
              ELSE FALSE]

\* A user operation: the behaviour has room for one more.
UserOp == ops < budget.ops /\ ops' = ops + 1 /\ UNCHANGED edits

\* The same for an operation on the editor's controls.
EditOp ==
  ops < budget.ops /\ ops' = ops + 1 /\ edits < budget.edits /\ edits' = edits + 1

\* Starting the saveReport call of saveToDb (kind "save") or of
\* handleBackFromEditor (kind "back").
Issue(put, kind) ==
  IF put = NoReport THEN inflight
  ELSE Append(inflight, [kind |-> kind, rep |-> put])

\* A handler of the editor that ends in updateReport, run with closure clos
\* on the report `updated`.
Update(op, updated, immediate, clos, ups) ==
  LET u == updateReport(updated, immediate, clos) IN
  /\ reports' = u.reports
  /\ activeReportId' = activeReportId
  /\ Render(u.sets, u.timers, ups)
  /\ inflight' = Issue(u.put, "save")
  /\ history' = Did(op, u.sets, u.put)

\* The App shell and the backend before anything is done.
InitShell ==
  /\ activeReportId = NoId
  /\ syncStatus = "saved"
  /\ toast = ""
  /\ gen = 0
  /\ timers = <<>>
  /\ inflight = <<>>
  /\ deletes = <<>>
  /\ deletingId = NoId
  /\ uploads = <<>>
  /\ nUploads = 0
  /\ store = [id \in DocIds |-> Find(InitialReports, id)]
  /\ blobs = {imagePath("u2", "r2", 0)}
  /\ now = 1
  /\ ops = 0
  /\ edits = 0
  /\ history = [op |-> "init", sets |-> <<>>, puts |-> 0, failed |-> FALSE,
                burst |-> TRUE]
  /\ isCreating = FALSE
  /\ sent = {}

\* The App shell once the user has signed in and the reports are loaded.
InitApp ==
  /\ reports = InitialReports
  /\ InitShell

\* Nothing of the camera, the exports or the compressor is running; the
\* connection parameters are all present.
InitIdle ==
  /\ camera = NoCamera
  /\ boot = Booted
  /\ export = NoExport
  /\ img = NoImg

Init ==
  /\ InitApp
  /\ InitIdle
  /\ budget = [ops |-> MaxOps, edits |-> MaxEdits]

\* ------------------------------------------------------------ ReportEditor
\* updateField('title', value)
UpdateField(value) ==
  /\ EditOp
  /\ EditorShown
  /\ value # localReport.title
  /\ IF ~isOwner
     THEN /\ history' = Did("updateField", <<>>, NoReport)
          /\ UNCHANGED << reports, activeReportId, syncStatus, gen, timers, uploads, inflight >>
     ELSE Update("updateField", [localReport EXCEPT !.title = value],
                 FALSE, Rendered, uploads)
  /\ UNCHANGED << toast, deletes, deletingId, nUploads, store, blobs, now >>
  /\ KeepExt

\* addPoint, at a moment when Date.now() returns t.
AddPoint(t) ==
  /\ EditOp
  /\ EditorShown
  /\ t >= now
  /\ IF ~isOwner
     THEN /\ history' = Did("addPoint", <<>>, NoReport)
          /\ UNCHANGED << reports, activeReportId, syncStatus, gen, timers, uploads,
                          inflight, now >>
     ELSE /\ Update("addPoint",
                    [localReport EXCEPT !.points = Append(@, ReportPoint(t, "", <<>>))],
                    TRUE, Rendered, uploads)
          /\ now' = t
  /\ UNCHANGED << toast, deletes, deletingId, nUploads, store, blobs >>
  /\ KeepExt

\* updatePoint(id, newPointData) on the report `rep` (the localReport the
\* callback closed over).
updatePoint(rep, id, field, value) ==
  [rep EXCEPT !.points = [i \in DOMAIN @ |->
     IF @[i].id = id THEN [@[i] EXCEPT ![field] = value] ELSE @[i]]]

\* The textarea of a point card: updatePoint(point.id, { text })
UpdateText(i, text) ==
  /\ EditOp
  /\ EditorShown
  /\ i \in DOMAIN localReport.points
  /\ text # localReport.points[i].text
  /\ IF ~isOwner
     THEN /\ history' = Did("updateText", <<>>, NoReport)
          /\ UNCHANGED << reports, activeReportId, syncStatus, gen, timers, uploads, inflight >>
     ELSE Update("updateText",
                 updatePoint(localReport, localReport.points[i].id, "text", text),
                 FALSE, Rendered, uploads)
  /\ UNCHANGED << toast, deletes, deletingId, nUploads, store, blobs, now >>
  /\ KeepExt

\* removePoint(id)
removePoint(rep, id) ==
  [rep EXCEPT !.points = SelectSeq(@, LAMBDA p : p.id # id)]

RemovePoint(i) ==
  /\ EditOp
  /\ EditorShown
  /\ i \in DOMAIN localReport.points
  /\ IF ~isOwner
     THEN /\ history' = Did("removePoint", <<>>, NoReport)
          /\ UNCHANGED << reports, activeReportId, syncStatus, gen, timers, uploads, inflight >>
     ELSE Update("removePoint",
                 removePoint(localReport, localReport.points[i].id),
                 TRUE, Rendered, uploads)
  /\ UNCHANGED << toast, deletes, deletingId, nUploads, store, blobs, now >>
  /\ KeepExt

\* -------------------------------------------------------- ReportPointCard
\* handleImageUpload with n files, up to the first await: the card shows
\* "Processing..." while compressImageFile and uploadImage run for every file
\* (files.map(async ...) starts them all).  The continuation keeps
\* the point, the updatePoint callback (hence localReport and the closure of
\* updateReport) and the userId / reportId props of this render.
Pending == [st |-> "pending"]

StartUpload(i, n) ==
  /\ EditOp
  /\ EditorShown
  /\ i \in DOMAIN localReport.points
  /\ n >= 1
  /\ ~ \E k \in DOMAIN uploads :
        uploads[k].card /\ uploads[k].pid = localReport.points[i].id
  /\ IF ~isOwner
     THEN UNCHANGED uploads
     ELSE uploads' = Append(uploads,
            [pid |-> localReport.points[i].id,
             imagePaths |-> localReport.points[i].imagePaths,
             rep |-> localReport, clos |-> Rendered, card |-> TRUE,
             kind |-> "file", files |-> [f \in 1..n |-> Pending]])
  /\ history' = Did("handleImageUpload", <<>>, NoReport)
  /\ UNCHANGED << reports, activeReportId, syncStatus, gen, timers, inflight, toast,
                  deletes, deletingId, nUploads, store, blobs, now >>
  /\ KeepExt

Without(s, k) == [j \in 1..(Len(s) - 1) |-> IF j < k THEN s[j] ELSE s[j + 1]]

\* The files of a batch that have not settled.
StillPending(files) == {f \in DOMAIN files : files[f].st = "pending"}

\* Promise.all(uploadPromises) has rejected: some file has failed.
Rejected(files) == \E f \in DOMAIN files : files[f].st = "failed"

\* newPaths, the value of await Promise.all(...): the paths in file order.
newPaths(files) == [f \in DOMAIN files |-> files[f].path]

\* compressImageFile and uploadImage of file f of batch k settle (for a
\* photo taken with the camera: fetch(imageDataUrl).blob() and uploadImage,
\* with no compressImageFile, and setIsCameraOpen(false) at the end).  When the
\* last file succeeds with none failed, Promise.all resolves and the
\* continuation of handleImageUpload runs updatePoint(point.id, { imagePaths:
\* [...point.imagePaths, ...newPaths] }, { immediate: true }) with everything
\* it captured when the batch began.  The first failure rejects Promise.all:
\* the catch block only logs and the card stops showing "Processing...",
\* while the other files of the batch still run to their end.
UploadSettles(k, f, ok) ==
  /\ UNCHANGED << ops, edits >>
  /\ k \in DOMAIN uploads
  /\ f \in StillPending(uploads[k].files)
  /\ LET up    == uploads[k]
         path  == imagePath(up.rep.userId, up.rep.id, nUploads + 1)
         files == [up.files EXCEPT ![f] = IF ok THEN [st |-> "done", path |-> path]
                                          ELSE [st |-> "failed"]]
         rest  == IF StillPending(files) = {} THEN Without(uploads, k)
                  ELSE [uploads EXCEPT ![k].files = files,
                                       ![k].card = @ /\ ~Rejected(files)]
     IN /\ IF ok
           THEN /\ nUploads' = nUploads + 1
                /\ blobs' = blobs \cup {path}
                /\ sent' = sent \cup {[path |-> path, compressed |-> up.kind = "file"]}
           ELSE UNCHANGED << nUploads, blobs, sent >>
        /\ IF StillPending(files) = {} /\ ~Rejected(files)
           THEN Update("uploadImage",
                       updatePoint(up.rep, up.pid, "imagePaths",
                                   up.imagePaths \o newPaths(files)),
                       TRUE, up.clos, rest)
           ELSE /\ UNCHANGED << reports, activeReportId, inflight >>
                /\ Render(<<>>, timers, rest)
                /\ history' = Did(IF ok THEN "uploadPart"
                                  ELSE IF Rejected(up.files) THEN "uploadPartFailed"
                                  ELSE "uploadFailed", <<>>, NoReport)
  /\ camera' = IF /\ uploads[k].kind = "camera" /\ uploads[k].card
                  /\ camera.open /\ camera.pid = uploads[k].pid
               THEN Unmount(camera)
               ELSE CameraAfter
  /\ UNCHANGED << toast, deletes, deletingId, store, now >>
  /\ UNCHANGED << budget, isCreating, boot, export, img >>

\* handleRemoveImage(imageIndex): the list without that index, saved
\* immediately, then deleteImage(path), whose failure is only logged.
RemoveImage(i, n, ok) ==
  /\ EditOp
  /\ EditorShown
  /\ i \in DOMAIN localReport.points
  /\ n \in DOMAIN localReport.points[i].imagePaths
  /\ LET point == localReport.points[i]
         pathToDelete == point.imagePaths[n]
         updatedPaths == Without(point.imagePaths, n)
     IN IF ~isOwner
        THEN /\ history' = Did("handleRemoveImage", <<>>, NoReport)
             /\ UNCHANGED << reports, activeReportId, syncStatus, gen, timers,
                             uploads, inflight, blobs >>
        ELSE /\ Update("handleRemoveImage",
                       updatePoint(localReport, point.id, "imagePaths", updatedPaths),
                       TRUE, Rendered, uploads)
             /\ blobs' = IF ok THEN blobs \ {pathToDelete} ELSE blobs
  /\ UNCHANGED << toast, deletes, deletingId, nUploads, store, now >>
  /\ KeepExt

\* ------------------------------------------------------------- CameraModal
\* "Use Camera" on the card of point i: setIsCameraOpen(true) mounts the
\* modal, whose effect calls getUserMedia and registers its cleanup, which
\* closes over the `stream` state of this first render: null.
OpenCamera(i) ==
  /\ UserOp
  /\ EditorShown
  /\ isOwner
  /\ ~camera.open
  /\ i \in DOMAIN localReport.points
  /\ ~ \E k \in DOMAIN uploads :
        uploads[k].card /\ uploads[k].pid = localReport.points[i].id
  /\ camera' = [camera EXCEPT !.open = TRUE, !.rid = activeReportId,
                              !.pid = localReport.points[i].id,
                              !.isLoading = TRUE, !.error = FALSE,
                              !.capturedImage = FALSE, !.cleanup = 0,
                              !.streams = Append(@, "pending")]
  /\ history' = Did("setIsCameraOpen", <<>>, NoReport)
  /\ UNCHANGED << reports, activeReportId, syncStatus, gen, timers, inflight, toast,
                  deletes, deletingId, uploads, nUploads, store, blobs, now >>
  /\ UNCHANGED << budget, isCreating, sent, boot, export, img >>

\* getUserMedia of the n-th modal settles: the stream is live from now on,
\* or the request was refused.  The state updates reach the modal only if
\* it is still the one mounted.
StreamSettles(n, ok) ==
  /\ n \in DOMAIN camera.streams
  /\ camera.streams[n] = "pending"
  /\ LET mounted == camera.open /\ n = Len(camera.streams) IN
     camera' = [camera EXCEPT !.streams[n] = IF ok THEN "live" ELSE "denied",
                              !.isLoading = IF mounted THEN FALSE ELSE @,
                              !.error = IF mounted /\ ~ok THEN TRUE ELSE @]
  /\ UNCHANGED appVars
  /\ UNCHANGED << budget, isCreating, sent, boot, export, img >>

\* CameraModal.handleCapture ("Capture", enabled when not loading and no
\* error; shown while there is no captured image).
Capture ==
  /\ UserOp
  /\ camera.open /\ ~camera.isLoading /\ ~camera.error /\ ~camera.capturedImage
  /\ camera' = [camera EXCEPT !.capturedImage = TRUE]
  /\ history' = Did("capture", <<>>, NoReport)
  /\ UNCHANGED << reports, activeReportId, syncStatus, gen, timers, inflight, toast,
                  deletes, deletingId, uploads, nUploads, store, blobs, now >>
  /\ UNCHANGED << budget, isCreating, sent, boot, export, img >>

\* "Retake": setCapturedImage(null)
Retake ==
  /\ UserOp
  /\ camera.open /\ camera.capturedImage
  /\ camera' = [camera EXCEPT !.capturedImage = FALSE]
  /\ history' = Did("retake", <<>>, NoReport)
  /\ UNCHANGED << reports, activeReportId, syncStatus, gen, timers, inflight, toast,
                  deletes, deletingId, uploads, nUploads, store, blobs, now >>
  /\ UNCHANGED << budget, isCreating, sent, boot, export, img >>

\* "Cancel" (shown while there is no captured image, disabled while
\* loading): onClose, that is setIsCameraOpen(false); the modal unmounts.
CancelCamera ==
  /\ UserOp
  /\ camera.open /\ ~camera.isLoading /\ ~camera.capturedImage
  /\ camera' = Unmount(camera)
  /\ history' = Did("cancelCamera", <<>>, NoReport)
  /\ UNCHANGED << reports, activeReportId, syncStatus, gen, timers, inflight, toast,
                  deletes, deletingId, uploads, nUploads, store, blobs, now >>
  /\ UNCHANGED << budget, isCreating, sent, boot, export, img >>

\* "Use Photo": handleConfirm -> onCapture(capturedImage), the card's
\* handleCapture up to its awaits.  The modal stays open until the upload
\* has settled.
ConfirmPhoto ==
  /\ EditOp
  /\ camera.open /\ camera.capturedImage
  /\ EditorShown /\ isOwner
  /\ \E i \in DOMAIN localReport.points :
       /\ localReport.points[i].id = camera.pid
       /\ uploads' = Append(uploads,
            [pid |-> camera.pid,
             imagePaths |-> localReport.points[i].imagePaths,
             rep |-> localReport, clos |-> Rendered, card |-> TRUE,
             kind |-> "camera", files |-> << Pending >>])
  /\ history' = Did("handleCapture", <<>>, NoReport)
  /\ UNCHANGED << reports, activeReportId, syncStatus, gen, timers, inflight, toast,
                  deletes, deletingId, nUploads, store, blobs, now >>
  /\ UNCHANGED extVars

\* --------------------------------------------------------------------- App
\* handleBackFromEditor
HandleBack ==
  /\ UserOp
  /\ EditorShown
  /\ LET reportToSave == Find(reports, activeReportId)
         flush == syncStatus = "unsaved" /\ reportToSave # NoReport
         s == saveToDb(syncStatus, reportToSave)
     IN IF flush
        THEN /\ activeReportId' = activeReportId
             /\ reports' = reports
             /\ Render(s.sets, cancel(timers, gen), uploads)
             /\ inflight' = Issue(s.put, "back")
             /\ history' = Did("handleBackFromEditor", s.sets, s.put)
        ELSE /\ activeReportId' = NoId
             /\ reports' = reports
             /\ NoSync
             /\ UNCHANGED inflight
             /\ history' = Did("handleBackFromEditor", <<>>, NoReport)
  /\ UNCHANGED << toast, deletes, deletingId, nUploads, store, blobs, now >>
  /\ KeepExt

\* The timeout of the oldest pending debounce fires: func(...args), that is
\* the saveToDb the wrapper was built around.
TimerFires ==
  /\ UNCHANGED << ops, edits >>
  /\ timers # <<>>
  /\ LET t == Head(timers)
         s == saveToDb(t.st, t.rep)
     IN /\ UNCHANGED << reports, activeReportId >>
        /\ Render(s.sets, Tail(timers), uploads)
        /\ inflight' = Issue(s.put, "save")
        /\ history' = Did("timer", s.sets, s.put)
  /\ UNCHANGED << toast, deletes, deletingId, nUploads, store, blobs, now >>
  /\ KeepExt

\* dbService.saveReport settles (doc(id).set); saveToDb continues after its
\* await, then handleBackFromEditor after its own.
SaveSettles(ok) ==
  /\ UNCHANGED << ops, edits >>
  /\ inflight # <<>>
  /\ Head(inflight).kind # "create"
  /\ LET c == Head(inflight)
         sets == IF ok THEN <<"saved">> ELSE <<"unsaved">>
     IN /\ store' = IF ok THEN [store EXCEPT ![c.rep.id] = c.rep] ELSE store
        /\ toast' = IF ok THEN toast ELSE "Failed to save changes."
        /\ activeReportId' = IF c.kind = "back" THEN NoId ELSE activeReportId
        /\ reports' = reports
        /\ Render(sets, timers, uploads)
        /\ inflight' = Tail(inflight)
        /\ history' = Did(IF ok THEN "saved" ELSE "saveFailed", sets, NoReport)
  /\ UNCHANGED << deletes, deletingId, nUploads, blobs, now >>
  /\ KeepExt

\* A filter that keeps the wrong side.
deleteReport_keepsDeleted(rs, idToDelete) == SelectSeq(rs, LAMBDA r : r.id = idToDelete)

\* deleteReport(idToDelete), after the await: the list without that report.
deleteReport(rs, idToDelete) == SelectSeq(rs, LAMBDA r : r.id # idToDelete)

\* A delete that also deletes the blobs under images/{userId}/{id}/.
DeleteSettles_cascades(ok) ==
  /\ UNCHANGED << ops, edits >>
  /\ deletes # <<>>
  /\ LET d == Head(deletes) IN
     /\ deletes' = Tail(deletes)
     /\ IF ok
        THEN /\ store' = [store EXCEPT ![d.id] = NoReport]
             /\ reports' = deleteReport(reports, d.id)
             /\ activeReportId' = IF d.activeReportId = d.id THEN NoId
                                  ELSE activeReportId
             /\ toast' = "Report deleted."
        ELSE UNCHANGED << store, reports, activeReportId, toast >>
     /\ NoSync
     /\ history' = Did(IF ok THEN "deleted" ELSE "deleteFailed", <<>>, NoReport)
  /\ blobs' = IF ok THEN {path \in blobs : path.reportId # Head(deletes).id} ELSE blobs
  /\ UNCHANGED << inflight, deletingId, nUploads, now >>
  /\ KeepExt

\* dbService.deleteReport settles (doc(id).delete()).
DeleteSettles(ok) ==
  /\ UNCHANGED << ops, edits >>
  /\ deletes # <<>>
  /\ LET d == Head(deletes) IN
     /\ deletes' = Tail(deletes)
     /\ IF ok
        THEN /\ store' = [store EXCEPT ![d.id] = NoReport]
             /\ reports' = deleteReport(reports, d.id)
             /\ activeReportId' = IF d.activeReportId = d.id THEN NoId
                                  ELSE activeReportId
             /\ toast' = "Report deleted."
        ELSE UNCHANGED << store, reports, activeReportId, toast >>
     /\ NoSync
     /\ history' = Did(IF ok THEN "deleted" ELSE "deleteFailed", <<>>, NoReport)
  /\ UNCHANGED << inflight, deletingId, nUploads, blobs, now >>
  /\ KeepExt

\* -------------------------------------------------------------- ReportList
\* onSelectReport(report.id): the editor replaces the list, whose state
\* (deletingId) is lost with it.
SelectReport(id) ==
  /\ UserOp
  /\ ~EditorShown
  /\ Find(reports, id) # NoReport
  /\ activeReportId' = id
  /\ reports' = reports
  /\ deletingId' = NoId
  /\ NoSync
  /\ history' = Did("onSelectReport", <<>>, NoReport)
  /\ UNCHANGED << toast, inflight, deletes, nUploads, store, blobs, now >>
  /\ KeepExt

\* handleDelete, the user confirming: the button is rendered for the owner's
\* reports and disabled while deletingId is that report.
HandleDelete(id) ==
  /\ UserOp
  /\ ~EditorShown
  /\ Find(reports, id) # NoReport
  /\ deletingId # id
  /\ IF Find(reports, id).userId = currentUserId
     THEN /\ deletingId' = id
          /\ deletes' = Append(deletes, [id |-> id, activeReportId |-> activeReportId])
     ELSE UNCHANGED << deletingId, deletes >>
  /\ history' = Did("handleDelete", <<>>, NoReport)
  /\ UNCHANGED << reports, activeReportId, syncStatus, gen, timers, inflight, toast,
                  uploads, nUploads, store, blobs, now >>
  /\ KeepExt

\* dbService.getReports: the documents of the collection, newest first.
getReports(st) ==
  LET ids == {id \in DOMAIN st : st[id] # NoReport}
      n   == Cardinality(ids)
      ord == CHOOSE q \in [1..n -> ids] :
               /\ \A i, j \in 1..n : i # j => q[i] # q[j]
               /\ \A i, j \in 1..n : i < j => st[q[i]].createdAt >= st[q[j]].createdAt
  IN [i \in 1..n |-> st[ord[i]]]

\* handleCreateClick -> createReport(userId), at a moment when Date.now()
\* returns t, up to its await: the new report goes to the store first.
CreateReport(t) ==
  /\ UserOp
  /\ ~EditorShown
  /\ ~isCreating
  /\ t >= now
  /\ now' = t
  /\ isCreating' = TRUE
  /\ inflight' = Append(inflight,
        [kind |-> "create",
         rep |-> Report(newReportId(t), currentUserId, "New Visit Report", t, <<>>)])
  /\ history' = Did("handleCreateClick", <<>>, NoReport)
  /\ UNCHANGED << reports, activeReportId, syncStatus, gen, timers, uploads, toast,
                  deletes, deletingId, nUploads, store, blobs >>
  /\ UNCHANGED << budget, sent, camera, boot, export, img >>

\* The saveReport call of createReport settles.  On success the report is put
\* first in the list and opened (the list, with its isCreating and
\* deletingId, is replaced by the editor); on failure createReport throws
\* and isCreating stays set.
CreateSettles(ok) ==
  /\ UNCHANGED << ops, edits >>
  /\ inflight # <<>>
  /\ Head(inflight).kind = "create"
  /\ LET c == Head(inflight) IN
     /\ inflight' = Tail(inflight)
     /\ IF ok
        THEN /\ store' = [store EXCEPT ![c.rep.id] = c.rep]
             /\ reports' = <<c.rep>> \o reports
             /\ activeReportId' = c.rep.id
             /\ toast' = "New report created!"
             /\ isCreating' = FALSE
             /\ deletingId' = NoId
        ELSE UNCHANGED << store, reports, activeReportId, toast, isCreating, deletingId >>
     /\ NoSync
     /\ history' = Did(IF ok THEN "created" ELSE "createFailed", <<>>, NoReport)
  /\ UNCHANGED << deletes, nUploads, blobs, now >>
  /\ UNCHANGED << budget, sent, camera, boot, export, img >>

\* The indexes of the point cards on screen.
PointIndexes == IF EditorShown THEN DOMAIN localReport.points ELSE {}

Next ==
  \/ \E v \in Titles : UpdateField(v)
  \/ \E t \in {now, now + 1} : AddPoint(t)
  \/ \E i \in PointIndexes, t \in Texts : UpdateText(i, t)
  \/ \E i \in PointIndexes : RemovePoint(i)
  \/ \E i \in PointIndexes : StartUpload(i, 1)
  \/ \E k \in DOMAIN uploads, ok \in BOOLEAN : UploadSettles(k, 1, ok)
  \/ \E i \in PointIndexes, n \in 1..(nUploads + 1), ok \in BOOLEAN : RemoveImage(i, n, ok)
  \/ HandleBack
  \/ TimerFires
  \/ \E ok \in BOOLEAN : SaveSettles(ok)
  \/ \E ok \in BOOLEAN : DeleteSettles(ok)
  \/ \E id \in ReportIds : SelectReport(id)
  \/ \E id \in ReportIds : HandleDelete(id)

Spec == Init /\ [][Next]_vars

\* ------------------------------------------------------- start-up (dbService)
\* A filter that accepts a configuration with some parameter present.
isConfigValid_some(config) == \E p \in Params : config[p]

\* isConfigValid: Object.values(config).every(value => value)
isConfigValid(config) == \A p \in Params : config[p]

\* app, db, auth, storage: TRUE for a handle, FALSE for null.
app(config) == isConfigValid(config)

db(config) == app(config)

auth(config) == app(config)

storage(config) == app(config)

\* renderContent: which screen the App shows.
Screen ==
  IF boot.authLoading THEN "spinner"
  ELSE IF ~boot.isDbInitialized THEN "notConfigured"
  ELSE IF boot.user = NoId THEN "login"
  ELSE IF boot.isLoading THEN "loading"
  ELSE IF EditorShown THEN "editor"
  ELSE "list"

\* The effect of App, run once after the first render.
AuthEffect ==
  /\ ~boot.effect
  /\ boot' = IF auth(boot.config)
             THEN [boot EXCEPT !.effect = TRUE, !.isDbInitialized = TRUE]
             ELSE [boot EXCEPT !.effect = TRUE, !.authLoading = FALSE]
  /\ UNCHANGED appVars
  /\ UNCHANGED << budget, isCreating, sent, camera, export, img >>

\* The onAuthStateChanged callback with currentUser u (NoId for null), up
\* to its await of getReports.
authStateChanged(b, u) ==
  IF u # NoId
  THEN [b EXCEPT !.user = u, !.authLoading = FALSE, !.isLoading = TRUE,
                 !.fetching = TRUE,
                 !.calls = IF db(b.config) THEN @ + 1 ELSE @]
  ELSE [b EXCEPT !.user = u, !.authLoading = FALSE, !.isLoading = FALSE]

\* The first callback after subscribing: the persisted session, if any.
AuthInitial(u) ==
  /\ boot.effect /\ auth(boot.config) /\ boot.authLoading
  /\ boot' = authStateChanged(boot, u)
  /\ reports' = IF u = NoId THEN <<>> ELSE reports
  /\ UNCHANGED << activeReportId, syncStatus, toast, gen, timers, inflight, deletes,
                  deletingId, uploads, nUploads, store, blobs, now, ops, edits,
                  history >>
  /\ UNCHANGED << budget, isCreating, sent, camera, export, img >>

\* getReports settles: the documents of the store, or [] on an error.
ReportsLoaded(ok) ==
  /\ boot.fetching
  /\ reports' = IF ok THEN getReports(store) ELSE <<>>
  /\ boot' = [boot EXCEPT !.fetching = FALSE, !.isLoading = FALSE]
  /\ UNCHANGED << activeReportId, syncStatus, toast, gen, timers, inflight, deletes,
                  deletingId, uploads, nUploads, store, blobs, now, ops, edits,
                  history >>
  /\ UNCHANGED << budget, isCreating, sent, camera, export, img >>

\* LoginScreen.handleSignIn: signInWithPopup, then (on success) the
\* onAuthStateChanged callback.
HandleSignIn(ok) ==
  /\ UserOp
  /\ Screen = "login"
  /\ ~boot.fetching
  /\ boot' = IF ~auth(boot.config) THEN boot
             ELSE IF ok
             THEN authStateChanged([boot EXCEPT !.calls = @ + 1], currentUserId)
             ELSE [boot EXCEPT !.calls = @ + 1]
  /\ history' = Did("handleSignIn", <<>>, NoReport)
  /\ UNCHANGED << reports, activeReportId, syncStatus, toast, gen, timers, inflight,
                  deletes, deletingId, uploads, nUploads, store, blobs, now >>
  /\ UNCHANGED << budget, isCreating, sent, camera, export, img >>

\* handleSignOut: auth.signOut(), then the callback with null.
HandleSignOut ==
  /\ UserOp
  /\ Screen \in {"list", "editor"}
  /\ boot' = IF ~auth(boot.config) THEN boot
             ELSE authStateChanged([boot EXCEPT !.calls = @ + 1], NoId)
  /\ reports' = IF auth(boot.config) THEN <<>> ELSE reports
  /\ history' = Did("handleSignOut", <<>>, NoReport)
  /\ UNCHANGED << activeReportId, syncStatus, toast, gen, timers, inflight,
                  deletes, deletingId, uploads, nUploads, store, blobs, now >>
  /\ UNCHANGED << budget, isCreating, sent, camera, export, img >>

\* A handler of the list or the editor calling a function of dbService or
\* storageService: the call goes to the backend when the handle is not null
\* (`if (!db) throw ...`, `if (!storage) throw ...`).
BackendCall(handle) ==
  /\ UserOp
  /\ Screen \in {"list", "editor"}
  /\ boot' = IF handle THEN [boot EXCEPT !.calls = @ + 1] ELSE boot
  /\ history' = Did("backendCall", <<>>, NoReport)
  /\ UNCHANGED << reports, activeReportId, syncStatus, toast, gen, timers, inflight,
                  deletes, deletingId, uploads, nUploads, store, blobs, now >>
  /\ UNCHANGED << budget, isCreating, sent, camera, export, img >>

\* The page being loaded with any subset of the parameters present.
InitConfig ==
  /\ reports = <<>>
  /\ InitShell
  /\ camera = NoCamera
  /\ export = NoExport
  /\ img = NoImg
  /\ budget = [ops |-> MaxOps, edits |-> MaxEdits]
  /\ \E config \in [Params -> BOOLEAN] :
       boot = [config |-> config, effect |-> FALSE, authLoading |-> TRUE,
               isDbInitialized |-> FALSE, user |-> NoId, isLoading |-> TRUE,
               fetching |-> FALSE, calls |-> 0]

NextConfig ==
  \/ AuthEffect
  \/ \E u \in {NoId, currentUserId} : AuthInitial(u)
  \/ \E ok \in BOOLEAN : ReportsLoaded(ok)
  \/ \E ok \in BOOLEAN : HandleSignIn(ok)
  \/ HandleSignOut
  \/ \E handle \in {db(boot.config), storage(boot.config)} : BackendCall(handle)

SpecConfig == InitConfig /\ [][NextConfig]_vars

\* ------------------------------------------------- exports (pdfService, docxService)
\* Lengths are whole numbers of 0.0000008 mm, so that the height of a text
\* line is exact and a document of several pages fits in 32 bits.
mm(x) == x * 1250000

\* 0.352778 * LINE_HEIGHT = 0.4938892 mm = 1234723 * 0.0000004 mm.
LineUnits == 1234723

\* fontSize * 0.352778 * LINE_HEIGHT; every font size is even.
lineHeight(fontSize) == (fontSize * LineUnits) \div 2

FONT_SIZES == [TITLE |-> 22, HEADING_2 |-> 16, HEADING_3 |-> 14, BODY |-> 12, META |-> 10]

MARGINS == [TOP |-> 20, BOTTOM |-> 20, LEFT |-> 20, RIGHT |-> 20]

a4Width == 210

a4Height == 297

printableWidth == a4Width - MARGINS.LEFT - MARGINS.RIGHT

\* maxWidth of processImage, in pixels.
maxWidth == 550

\* floor(a * b / c) without leaving 32 bits.
MulDiv(a, b, c) == (a \div c) * b + ((a % c) * b) \div c

\* An image as stored (pixels) with its entry of imageSizes (0: no entry).
ImageKinds ==
  { [width |-> 800, height |-> 600, size |-> 100],
    [width |-> 530, height |-> 800, size |-> 100],
    [width |-> 800, height |-> 600, size |-> 0] }

SeqsUpTo(S, n) == UNION { [1..k -> S] : k \in 0..n }

\* A point as the exports read it: the lines its text wraps to, its images.
ExportPoints == [lines : {1, LongText}, images : SeqsUpTo(ImageKinds, MaxImages)]

RECURSIVE imageCount(_)
imageCount(points) ==
  IF points = <<>> THEN 0 ELSE Len(Head(points).images) + imageCount(Tail(points))

\* The reports handed to an export; title, area and date take one line each.
ExportReports ==
  { points \in SeqsUpTo(ExportPoints, MaxPoints) : imageCount(points) <= MaxImages }

\* `Point #${index + 1}` with the index counting from 1 instead of 0.
pointLabel_fromZero(index) == "Point #" \o ToString(index)

\* `Point #${index + 1}`
pointLabel(index) == "Point #" \o ToString(index + 1)

\* What an export has put into the document: a block of the PDF at
\* (page, y) of height h, or a paragraph of the DOCX.
item(e, type, label, h) ==
  [type |-> type, point |-> e.i, image |-> e.j, label |-> label,
   page |-> e.pages, y |-> e.currentY, h |-> h]

\* checkAndAddPage that adds a page before every block.
checkAndAddPage_always(e, spaceNeeded) ==
  [e EXCEPT !.out = Append(@, item(e, "addPage", "", spaceNeeded)),
            !.pages = @ + 1, !.currentY = mm(MARGINS.TOP)]

checkAndAddPage(e, spaceNeeded) ==
  IF e.currentY + spaceNeeded > mm(a4Height - MARGINS.BOTTOM)
  THEN [e EXCEPT !.out = Append(@, item(e, "addPage", "", spaceNeeded)),
                 !.pages = @ + 1, !.currentY = mm(MARGINS.TOP)]
  ELSE e

addWrappedText(e, type, label, lines, fontSize) ==
  LET blockHeight == lines * lineHeight(fontSize)
      e1 == checkAndAddPage(e, blockHeight)
  IN [e1 EXCEPT !.out = Append(@, item(e1, type, label, blockHeight)),
                !.currentY = @ + blockHeight]

advance(e, d) == [e EXCEPT !.currentY = @ + mm(d)]

\* generatePdf, lines 75-84: title, area, date and the rule under them.
pdfHeader(e) ==
  LET e1 == advance(addWrappedText(e, "title", "", 1, FONT_SIZES.TITLE), 4)
      e2 == advance(addWrappedText(e1, "area", "", 1, FONT_SIZES.HEADING_2), 2)
      e3 == advance(addWrappedText(e2, "generated", "", 1, FONT_SIZES.META), 10)
  IN advance(e3, 10)

\* The end of the body of the point loop of generatePdf: the separator, and
\* on to the next point or to the save.
pdfEndPoint(e) ==
  IF e.i < Len(e.rep)
  THEN LET e1 == advance(checkAndAddPage([e EXCEPT !.j = 0], 10), 5)
           e2 == [e1 EXCEPT !.out = Append(@, item(e1, "separator", "", 0))]
       IN [advance(e2, 5) EXCEPT !.i = @ + 1, !.j = 0, !.pc = "point"]
  ELSE [e EXCEPT !.j = 0, !.pc = "save"]

\* On to the first image of the point, if it has one.
toImages(e, endPoint) ==
  IF e.rep[e.i].images = <<>> THEN endPoint ELSE [e EXCEPT !.j = 1, !.pc = "image"]

\* On to the next image of the point, if it has one.
nextImage(e, endPoint) ==
  IF e.j < Len(e.rep[e.i].images) THEN [e EXCEPT !.j = @ + 1] ELSE endPoint

\* generatePdf, lines 97-112: an image that was fetched and decoded.
pdfImage(e) ==
  LET im == e.rep[e.i].images[e.j]
      sizePercent == IF im.size # 0 THEN im.size ELSE 60
      desiredWidth == (mm(printableWidth) \div 100) * sizePercent
      imgHeight == MulDiv(desiredWidth, im.height, im.width)
      requiredSpace == imgHeight + mm(5)
      printablePageHeight == a4Height - MARGINS.TOP - MARGINS.BOTTOM
      e1 == IF /\ e.currentY + requiredSpace > mm(a4Height - MARGINS.BOTTOM)
               /\ requiredSpace <= mm(printablePageHeight)
            THEN [e EXCEPT !.out = Append(@, item(e, "addPage", "", requiredSpace)),
                           !.pages = @ + 1, !.currentY = mm(MARGINS.TOP)]
            ELSE e
  IN [e1 EXCEPT !.out = Append(@, [item(e1, "image", "", imgHeight)
                                     EXCEPT !.label = ToString(sizePercent)]),
                !.currentY = @ + requiredSpace]

\* An image whose failure ends the export with false.
pdfImageFailed_aborts(e) ==
  [e EXCEPT !.failed = @ \cup {<< e.i, e.j >>}, !.pc = "done", !.result = "false"]

\* generatePdf, lines 114-117: an image that could not be fetched or decoded.
pdfImageFailed(e) ==
  [addWrappedText(e, "placeholder", "[Image could not be loaded]", 1, FONT_SIZES.META)
     EXCEPT !.failed = @ \cup {<< e.i, e.j >>}]

Exporting(kind, pc) == export.kind = kind /\ export.pc = pc

KeepApp == UNCHANGED << appVars, budget, isCreating, sent, camera, boot, img >>

\* handlePdfGeneration: generatePdf up to its point loop.
GeneratePdf ==
  /\ Exporting("none", "idle")
  /\ export' = pdfHeader([export EXCEPT !.kind = "pdf", !.pc = "point", !.i = 1,
                                        !.currentY = mm(MARGINS.TOP), !.pages = 1,
                                        !.result = "running"])
  /\ KeepApp

\* The heading and the text of a point.
PdfPoint ==
  /\ Exporting("pdf", "point")
  /\ LET e == export
         index == e.i - 1
         e0 == IF e.rep = <<>> THEN e
               ELSE checkAndAddPage(e, lineHeight(FONT_SIZES.HEADING_3))
         e1 == advance(addWrappedText(e0, "heading", pointLabel(index), 1,
                                      FONT_SIZES.HEADING_3), 2)
         e2 == advance(addWrappedText(e1, "text", "", e.rep[e.i].lines,
                                      FONT_SIZES.BODY), 5)
     IN export' = IF e.rep = <<>> THEN [e EXCEPT !.pc = "save"]
                  ELSE toImages(e2, pdfEndPoint(e2))
  /\ KeepApp

\* One image of a point: getDownloadUrl and getImageData settle.
PdfImage(ok) ==
  /\ Exporting("pdf", "image")
  /\ LET e == IF ok THEN pdfImage(export) ELSE pdfImageFailed(export)
     IN export' = IF e.pc = "done" THEN e ELSE nextImage(e, pdfEndPoint(e))
  /\ KeepApp

\* A title is a sequence of characters, of which these are samples.
AsciiLower == {"a", "z"}

AsciiUpper == {"A", "Z"}

Digits == {"0", "7"}

TitleChars == {"a", "Z", "7", " ", "-", "é"}

\* String.prototype.toLowerCase on one character.
toLowerCase(c) ==
  IF c = "A" THEN "a" ELSE IF c = "Z" THEN "z" ELSE IF c = "É" THEN "é" ELSE c

\* /[^a-z0-9]/gi matches c: without the u flag the case-insensitive match
\* never maps a character outside ASCII to one inside.
notAlphanumeric(c) == c \notin AsciiLower \cup AsciiUpper \cup Digits

\* generatePdf: report.title.replace(/[^a-z0-9]/gi, '_').toLowerCase()
safeTitle(title) ==
  [k \in DOMAIN title |->
     toLowerCase(IF notAlphanumeric(title[k]) THEN "_" ELSE title[k])]

\* pdf.save(`Report_${safeTitle}.pdf`) and return true.
PdfSave ==
  /\ Exporting("pdf", "save")
  /\ export' = [export EXCEPT !.pc = "done", !.result = "true",
                              !.file = << "Report_" >> \o safeTitle(export.title)
                                       \o << ".pdf" >>]
  /\ KeepApp

docxEndPoint(e) ==
  IF e.i < Len(e.rep) THEN [e EXCEPT !.i = @ + 1, !.j = 0, !.pc = "point"]
  ELSE [e EXCEPT !.j = 0, !.pc = "save"]

push(e, type, label, h) == [e EXCEPT !.out = Append(@, item(e, type, label, h))]

\* handleGenerateDocx: generateDocx up to its point loop.
GenerateDocx ==
  /\ Exporting("none", "idle")
  /\ export' = [export EXCEPT !.kind = "docx", !.pc = "point", !.i = 1,
                              !.result = "running"]
  /\ KeepApp

\* The two paragraphs of a point.
DocxPoint ==
  /\ Exporting("docx", "point")
  /\ LET e == export
         index == e.i - 1
         e1 == push(push(e, "heading", pointLabel(index), 0), "text", "", 0)
     IN export' = IF e.rep = <<>> THEN [e EXCEPT !.pc = "save"]
                  ELSE toImages(e1, docxEndPoint(e1))
  /\ KeepApp

\* processImage settles: the scaled image, or null.
DocxImage(ok) ==
  /\ Exporting("docx", "image")
  /\ LET im == export.rep[export.i].images[export.j]
         height == IF im.width > maxWidth
                   THEN MulDiv(im.height, maxWidth, im.width) ELSE im.height
         e == IF ok THEN push(export, "image", "", height)
              ELSE [export EXCEPT !.failed = @ \cup {<< export.i, export.j >>}]
     IN export' = nextImage(e, docxEndPoint(e))
  /\ KeepApp

\* The replacement without the change of case.
docxSafeTitle_keepsCase(title) ==
  [k \in DOMAIN title |-> IF notAlphanumeric(title[k]) THEN "_" ELSE title[k]]

\* generateDocx: report.title.replace(/[^a-z0-9]/gi, '_').toLowerCase()
docxSafeTitle(title) ==
  [k \in DOMAIN title |->
     toLowerCase(IF notAlphanumeric(title[k]) THEN "_" ELSE title[k])]

\* The document is the header followed by pointChildren; the download is
\* named `Report_${safeTitle}.docx`; return true.
DocxSave ==
  /\ Exporting("docx", "save")
  /\ LET e == [export EXCEPT !.i = 0]
         header == << item(e, "title", "", 0), item(e, "area", "", 0),
                      item(e, "generated", "", 0), item(e, "reportPoints", "", 0) >>
     IN export' = [export EXCEPT !.out = header \o @, !.pc = "done",
                                 !.result = "true",
                                 !.file = << "Report_" >> \o docxSafeTitle(export.title)
                                          \o << ".docx" >>]
  /\ KeepApp

InitExport ==
  /\ InitApp
  /\ camera = NoCamera
  /\ boot = Booted
  /\ img = NoImg
  /\ budget = [ops |-> MaxOps, edits |-> MaxEdits]
  /\ \E points \in ExportReports : export = [NoExport EXCEPT !.rep = points]

NextExport ==
  \/ GeneratePdf
  \/ PdfPoint
  \/ \E ok \in BOOLEAN : PdfImage(ok)
  \/ PdfSave
  \/ GenerateDocx
  \/ DocxPoint
  \/ \E ok \in BOOLEAN : DocxImage(ok)
  \/ DocxSave

SpecExport == InitExport /\ [][NextExport]_vars

\* The exports of a report without points, for every title of up to MaxTitle
\* characters.
InitFileName ==
  /\ InitApp
  /\ camera = NoCamera
  /\ boot = Booted
  /\ img = NoImg
  /\ budget = [ops |-> MaxOps, edits |-> MaxEdits]
  /\ \E title \in SeqsUpTo(TitleChars, MaxTitle) :
       export = [NoExport EXCEPT !.title = title]

NextFileName ==
  \/ GeneratePdf
  \/ PdfPoint
  \/ PdfSave
  \/ GenerateDocx
  \/ DocxPoint
  \/ DocxSave

SpecFileName == InitFileName /\ [][NextFileName]_vars

\* ------------------------------------------------ compressImageFile (CameraModal)
MAX_WIDTH == 800

MAX_HEIGHT == 800

\* Widths and heights of the picked image files, in pixels.
Dims ==
  {1, 2, 3, 600, MAX_WIDTH - 1, MAX_WIDTH, MAX_WIDTH + 1, 1000, 1200,
   2 * MAX_WIDTH, 2 * MAX_WIDTH + 1}

\* Lines 143-155: the size given to the canvas. The products are doubles in
\* the code and the canvas truncates them to whole pixels.
scaled(width, height) ==
  IF width > height
  THEN IF width > MAX_WIDTH
       THEN [width |-> MAX_WIDTH, height |-> MulDiv(height, MAX_WIDTH, width)]
       ELSE [width |-> width, height |-> height]
  ELSE IF height > MAX_HEIGHT
       THEN [width |-> MulDiv(width, MAX_HEIGHT, height), height |-> MAX_HEIGHT]
       ELSE [width |-> width, height |-> height]

KeepAll == UNCHANGED << appVars, budget, isCreating, sent, camera, boot, export >>

\* reader.onload and the decoding of the image, or reader.onerror / img.onerror.
ImageLoads(ok) ==
  /\ img.phase = "reading"
  /\ img' = [img EXCEPT !.phase = IF ok THEN "loaded" ELSE "unreadable"]
  /\ KeepAll

\* img.onload up to canvas.toBlob.
ImageDrawn ==
  /\ img.phase = "loaded"
  /\ img' = [img EXCEPT !.phase = "drawn", !.canvas = scaled(img.width, img.height)]
  /\ KeepAll

\* The callback of toBlob: null for a canvas without pixels.
BlobReady ==
  /\ img.phase = "drawn"
  /\ img' = [img EXCEPT !.phase =
               IF img.canvas.width = 0 \/ img.canvas.height = 0
               THEN "rejected" ELSE "resolved"]
  /\ KeepAll

\* compressImageFile called with a file of any of the sizes.
InitCompress ==
  /\ InitApp
  /\ camera = NoCamera
  /\ boot = Booted
  /\ export = NoExport
  /\ budget = [ops |-> MaxOps, edits |-> MaxEdits]
  /\ \E width \in Dims, height \in Dims :
       img = [NoImg EXCEPT !.phase = "reading", !.width = width, !.height = height]

NextCompress ==
  \/ \E ok \in BOOLEAN : ImageLoads(ok)
  \/ ImageDrawn
  \/ BlobReady

SpecCompress == InitCompress /\ [][NextCompress]_vars

\* Every call to the store succeeds.
NextReliable ==
  \/ \E v \in Titles : UpdateField(v)
  \/ \E t \in {now, now + 1} : AddPoint(t)
  \/ \E i \in PointIndexes, t \in Texts : UpdateText(i, t)
  \/ \E i \in PointIndexes : RemovePoint(i)
  \/ \E i \in PointIndexes : StartUpload(i, 1)
  \/ \E k \in DOMAIN uploads, ok \in BOOLEAN : UploadSettles(k, 1, ok)
  \/ \E i \in PointIndexes, n \in 1..(nUploads + 1), ok \in BOOLEAN : RemoveImage(i, n, ok)
  \/ HandleBack
  \/ TimerFires
  \/ SaveSettles(TRUE)
  \/ DeleteSettles(TRUE)
  \/ \E id \in ReportIds : SelectReport(id)
  \/ \E id \in ReportIds : HandleDelete(id)

SpecReliable == Init /\ [][NextReliable]_vars

\* The round trip: create a report, add one point, type its text, attach
\* one file, in that order, with every call to the store succeeding.
TypedText == "a"

InitRoundTrip ==
  /\ InitApp
  /\ InitIdle
  /\ budget = [ops |-> MaxOps, edits |-> MaxEdits + 1]

NextRoundTrip ==
  \/ ops = 0 /\ \E t \in {now, now + 1} : CreateReport(t)
  \/ CreateSettles(TRUE)
  \/ ops = 1 /\ \E t \in {now, now + 1} : AddPoint(t)
  \/ ops = 2 /\ \E i \in PointIndexes : UpdateText(i, TypedText)
  \/ ops = 3 /\ \E i \in PointIndexes : StartUpload(i, 1)
  \/ \E k \in DOMAIN uploads : UploadSettles(k, 1, TRUE)
  \/ TimerFires
  \/ SaveSettles(TRUE)

SpecRoundTrip == InitRoundTrip /\ [][NextRoundTrip]_vars

\* Attaching files: batches of up to MaxFiles files on the cards of a report,
\* with images removed and the editor left and re-entered meanwhile.
InitUploads ==
  /\ InitApp
  /\ InitIdle
  /\ budget = [ops |-> MaxOps, edits |-> MaxEdits + 1]

NextUploads ==
  \/ \E id \in ReportIds : SelectReport(id)
  \/ \E i \in PointIndexes, n \in 1..MaxFiles : StartUpload(i, n)
  \/ \E k \in DOMAIN uploads, f \in 1..MaxFiles, ok \in BOOLEAN : UploadSettles(k, f, ok)
  \/ \E i \in PointIndexes, n \in 1..(nUploads + 1), ok \in BOOLEAN : RemoveImage(i, n, ok)
  \/ HandleBack
  \/ \E ok \in BOOLEAN : SaveSettles(ok)

SpecUploads == InitUploads /\ [][NextUploads]_vars

\* Attaching and removing images in a short behaviour in which the store
\* accepts every record.
InitPaths ==
  /\ InitApp
  /\ InitIdle
  /\ budget = [ops |-> MaxOps - 2, edits |-> MaxEdits]

NextPaths ==
  \/ \E id \in ReportIds : SelectReport(id)
  \/ \E i \in PointIndexes, n \in 1..MaxFiles : StartUpload(i, n)
  \/ \E k \in DOMAIN uploads, f \in 1..MaxFiles, ok \in BOOLEAN : UploadSettles(k, f, ok)
  \/ \E i \in PointIndexes, n \in 1..(nUploads + 1), ok \in BOOLEAN : RemoveImage(i, n, ok)
  \/ HandleBack
  \/ SaveSettles(TRUE)

SpecPaths == InitPaths /\ [][NextPaths]_vars

\* Points removed and reports deleted while they hold images.
NextCascade ==
  \/ \E id \in ReportIds : SelectReport(id)
  \/ \E i \in PointIndexes : StartUpload(i, 1)
  \/ \E k \in DOMAIN uploads, ok \in BOOLEAN : UploadSettles(k, 1, ok)
  \/ \E i \in PointIndexes : RemovePoint(i)
  \/ HandleBack
  \/ \E ok \in BOOLEAN : SaveSettles(ok)
  \/ \E id \in ReportIds : HandleDelete(id)
  \/ \E ok \in BOOLEAN : DeleteSettles(ok)

SpecCascade == Init /\ [][NextCascade]_vars

\* The list of reports: creating, deleting, opening and leaving reports,
\* with the store accepting or refusing each call.
InitList ==
  /\ InitApp
  /\ InitIdle
  /\ budget = [ops |-> MaxOps, edits |-> MaxEdits]

NextList ==
  \/ \E t \in {now, now + 1} : CreateReport(t)
  \/ \E ok \in BOOLEAN : CreateSettles(ok)
  \/ \E id \in ReportIds : HandleDelete(id)
  \/ \E ok \in BOOLEAN : DeleteSettles(ok)
  \/ \E id \in ReportIds : SelectReport(id)
  \/ HandleBack

SpecList == InitList /\ [][NextList]_vars

\* Editing the points of a report, with room for three edits.
InitPoints ==
  /\ InitApp
  /\ InitIdle
  /\ budget = [ops |-> MaxOps - 1, edits |-> MaxEdits + 1]

NextPoints ==
  \/ \E id \in ReportIds : SelectReport(id)
  \/ \E v \in Titles : UpdateField(v)
  \/ \E t \in {now, now + 1} : AddPoint(t)
  \/ \E i \in PointIndexes, t \in Texts : UpdateText(i, t)
  \/ \E i \in PointIndexes : RemovePoint(i)
  \/ TimerFires
  \/ \E ok \in BOOLEAN : SaveSettles(ok)

SpecPoints == InitPoints /\ [][NextPoints]_vars

\* Taking photos: the camera of the cards of a report.
NextCamera ==
  \/ \E id \in ReportIds : SelectReport(id)
  \/ \E i \in PointIndexes : OpenCamera(i)
  \/ \E n \in DOMAIN camera.streams, ok \in BOOLEAN : StreamSettles(n, ok)
  \/ Capture
  \/ Retake
  \/ CancelCamera
  \/ ConfirmPhoto
  \/ ~camera.open /\ \E i \in PointIndexes : StartUpload(i, 1)
  \/ ~camera.open /\ \E i \in PointIndexes : RemovePoint(i)
  \/ \E k \in DOMAIN uploads, ok \in BOOLEAN : UploadSettles(k, 1, ok)
  \/ \E ok \in BOOLEAN : SaveSettles(ok)
  \/ ~camera.open /\ HandleBack

SpecCamera == Init /\ [][NextCamera]_vars

\* ------------------------------------------------------------------ claims
ImmediateOps == {"addPoint", "removePoint", "uploadImage", "handleRemoveImage"}

\* No user operation but the one that opened the editor has left the
\* editor's controls: everything pending belongs to this editing session.
OneSession == ops = edits + 1

\* A timeout that will start a saveReport call when it fires.
WillSave(t) == saveToDb(t.st, t.rep).put # NoReport

\* C1: a burst of point-text edits, each within the debounce delay of the
\* previous one, leads to exactly one saveReport call, and that call carries
\* the report with the final text.
C1_BurstOneCall ==
  history.burst =>
    /\ history.puts <= 1
    /\ \A k \in DOMAIN inflight : inflight[k].rep = localReport
    /\ (edits > 0 /\ isOwner /\ timers = <<>>) => history.puts = 1

\* C2: every immediate mutation made by the owner (add point, remove point,
\* add image, remove image) starts its own saveReport call carrying the
\* mutated report, whatever the sync status.
C2_ImmediateAlwaysSaves ==
  [][ ( /\ history'.op \in ImmediateOps
        /\ history'.op # "uploadImage" => isOwner )
      => /\ history'.puts = history.puts + 1
         /\ inflight' # <<>>
         /\ Find(reports', Last(inflight').rep.id) \in {Last(inflight').rep, NoReport} ]_vars

\* C3: while the editor is open for the first time (the only operations
\* outside its controls are the one that opened it and at most one more),
\* at most one saveReport call started by saveToDb is in flight.
C3_OneInFlight ==
  (activeReportId # NoId /\ ops <= edits + 2) =>
    Cardinality({k \in DOMAIN inflight : inflight[k].kind \in {"save", "back"}}) <= 1

\* C4: when an immediate flush is issued, no debounced call scheduled before
\* it in the same editing session is issued afterwards.
C4_ImmediateCancelsDebounced ==
  [][ ( /\ history'.op \in ImmediateOps
        /\ history'.puts > history.puts
        /\ OneSession' )
      => \A k \in DOMAIN timers' : ~WillSave(timers'[k]) ]_vars

\* C5: once the owner has stopped editing and nothing is pending, the stored
\* record of each of the owner's reports equals the report in the editor,
\* provided the calls to the store succeed.  (Checked under SpecReliable.)
Quiescent == timers = <<>> /\ inflight = <<>> /\ uploads = <<>> /\ deletes = <<>>

C5_EventuallyStored ==
  Quiescent =>
    \A k \in DOMAIN reports :
      reports[k].userId = currentUserId => store[reports[k].id] = reports[k]

\* C6: syncStatus moves only saved->unsaved, unsaved->saving, saving->saved
\* and saving->unsaved; every mutation by the owner sets it to unsaved; no
\* saveReport call starts from status saved.
AllowedMoves ==
  { <<"saved", "unsaved">>, <<"unsaved", "saving">>,
    <<"saving", "saved">>, <<"saving", "unsaved">> }

MovesAllowed(chain) ==
  \A k \in 1..(Len(chain) - 1) :
    chain[k] = chain[k + 1] \/ <<chain[k], chain[k + 1]>> \in AllowedMoves

MutationOps == ImmediateOps \cup {"updateField", "updateText"}

C6_StatusMachine ==
  [][ /\ MovesAllowed(<<syncStatus>> \o history'.sets)
      /\ ( /\ history'.op \in MutationOps
           /\ history'.op # "uploadImage" => isOwner )
         => (history'.sets # <<>> /\ history'.sets[1] = "unsaved")
      /\ history'.puts > history.puts
         => \E k \in DOMAIN history'.sets :
              /\ history'.sets[k] = "saving"
              /\ (<<syncStatus>> \o history'.sets)[k] # "saved" ]_vars

\* C7: a failed flush leaves syncStatus unsaved and shows the error toast,
\* and no saveReport call starts until the next local edit or navigation.
C7_NoCallAfterFailure ==
  [][ /\ history'.op = "saveFailed"
         => syncStatus' = "unsaved" /\ toast' = "Failed to save changes."
      /\ (history.failed /\ history'.op \in AsyncOps)
         => history'.puts = history.puts ]_vars

\* C8: going back while unsaved cancels the pending debounced call, starts
\* exactly one saveReport call with the current report and clears the active
\* report only when that call has settled.
C8_BackFlushesOnce ==
  [][ /\ ( /\ history'.op = "handleBackFromEditor"
           /\ syncStatus = "unsaved"
           /\ OneSession )
         => /\ \A k \in DOMAIN timers' : ~WillSave(timers'[k])
            /\ history'.puts = history.puts + 1
            /\ inflight' = Append(inflight, [kind |-> "back", rep |-> activeReport])
            /\ activeReportId' = activeReportId
      /\ ( /\ history'.op \in {"saved", "saveFailed"}
           /\ Head(inflight).kind = "back" )
         => activeReportId' = NoId ]_vars

\* C9: a confirmed delete starts exactly one delete call for that report;
\* when it succeeds the report is gone from the list and from the store and
\* every other report of the list is still there, unchanged and in order.
C9_DeleteRemovesOne ==
  [][ /\ Len(deletes') > Len(deletes)
         => /\ history'.op = "handleDelete"
            /\ deletingId' # NoId
            /\ Find(reports, deletingId').userId = currentUserId
            /\ deletes'[Len(deletes')].id = deletingId'
            /\ Len(deletes') = Len(deletes) + 1
            /\ reports' = reports
      /\ (history'.op = "handleDelete" /\ deletingId' # deletingId)
         => /\ Len(deletes') = Len(deletes) + 1
            /\ Cardinality({k \in DOMAIN deletes' \ DOMAIN deletes :
                              deletes'[k].id = deletingId'}) = 1
      /\ history'.op = "deleted"
         => LET id == Head(deletes).id IN
            /\ Find(reports', id) = NoReport
            /\ store'[id] = NoReport
            /\ \A k \in DOMAIN reports : reports[k].id # id =>
                 \E m \in DOMAIN reports' :
                   /\ reports'[m] = reports[k]
                   /\ m = Cardinality({j \in 1..k : reports[j].id # id})
            /\ Len(reports') = Cardinality({j \in DOMAIN reports : reports[j].id # id})
            /\ \A r \in ReportIds \ {id} : store'[r] = store[r]
      /\ reports' # reports /\ Len(reports') < Len(reports)
         => history'.op = "deleted" ]_vars

C9_Witness ==
  /\ history.op = "deleted"
  /\ Find(reports, "r1") = NoReport
  /\ store["r1"] = NoReport
  /\ Find(reports, "r2") = Find(InitialReports, "r2")

\* C10: for a report the viewer does not own, nothing changes the local
\* report and no mutation call (saveReport, deleteReport, uploadImage,
\* deleteImage) is made for it.
NotOwned(rep) == rep # NoReport /\ rep.userId # currentUserId

Range(s) == {s[i] : i \in DOMAIN s}

C10_NonOwnerInert ==
  /\ \A id \in ReportIds :
       NotOwned(Find(InitialReports, id)) =>
         /\ Find(reports, id) = Find(InitialReports, id)
         /\ \A k \in DOMAIN deletes : deletes[k].id # id
         /\ \A k \in DOMAIN uploads : uploads[k].rep.id # id
         /\ \A p \in Range(Find(InitialReports, id).points) :
              Range(p.imagePaths) \subseteq blobs
  /\ \A k \in DOMAIN inflight : ~NotOwned(inflight[k].rep)
  /\ \A b \in blobs : b.userId # currentUserId => b \in {imagePath("u2", "r2", 0)}
\* C11: after the round trip (create, add one point, type its text, attach
\* one uploaded image) with everything saved, the list reloaded from the
\* store holds the report with one point whose text is the typed text and
\* whose only image path is the path the upload returned.
C11_RoundTrip ==
  (ops = 4 /\ Quiescent /\ nUploads = 1) =>
    LET r == Find(getReports(store), activeReportId) IN
    /\ r # NoReport
    /\ Len(r.points) = 1
    /\ r.points[1].text = TypedText
    /\ r.points[1].imagePaths = << imagePath(currentUserId, activeReportId, 1) >>
\* C12: the files of one batch upload concurrently; the point's image list
\* changes only when the last file of the batch has settled with none
\* failed, by one update that appends the new paths, in file order, to the
\* point's list; a failure in the batch changes no report and starts no
\* saveReport call.
UploadOps == {"uploadImage", "uploadPart", "uploadPartFailed", "uploadFailed"}

\* The paths of a batch whose last pending file gets the path `last`.
BatchPaths(up, last) ==
  [f \in DOMAIN up.files |->
     IF up.files[f].st = "done" THEN up.files[f].path ELSE last]

C12_BatchUpload ==
  [][ /\ (history'.op \in UploadOps /\ reports' # reports)
         => history'.op = "uploadImage"
      /\ history'.op = "uploadImage"
         => \E k \in DOMAIN uploads :
              LET up  == uploads[k]
                  old == Find(reports, up.rep.id)
                  new == Find(reports', up.rep.id)
              IN /\ Cardinality(StillPending(up.files)) = 1
                 /\ ~Rejected(up.files)
                 /\ old # NoReport => new # NoReport
                 /\ \A i \in DOMAIN old.points :
                      old.points[i].id = up.pid =>
                        /\ i \in DOMAIN new.points
                        /\ new.points[i].imagePaths =
                             old.points[i].imagePaths
                               \o BatchPaths(up, imagePath(up.rep.userId, up.rep.id,
                                                           nUploads'))
      /\ history'.op \in {"uploadFailed", "uploadPartFailed"}
         => /\ reports' = reports
            /\ inflight' = inflight
            /\ history'.puts = history.puts ]_vars
\* C13: every uploadImage call, for a picked file or for a photo taken with
\* the camera, carries a blob made by compressImageFile.
C13_CompressedBeforeUpload == \A u \in sent : u.compressed

\* C14: the camera stream of a modal that has unmounted (cancelled, closed
\* after the upload, or removed with its card) has its tracks stopped, in
\* every order of acquisition, capture, confirm, cancel and unmount.
C14_StreamReleased ==
  \A n \in DOMAIN camera.streams :
    (camera.open => n # Len(camera.streams)) => camera.streams[n] # "live"
\* C15: with a connection parameter absent, the db, auth and storage
\* handles are null, the App never shows the login, loading, list or editor
\* screen and shows the not-configured screen once its effect has run, and
\* no call reaches the backend.
C15_NotConfigured ==
  (\E p \in Params : ~boot.config[p]) =>
    /\ ~db(boot.config) /\ ~auth(boot.config) /\ ~storage(boot.config)
    /\ Screen \in {"spinner", "notConfigured"}
    /\ boot.effect => Screen = "notConfigured"
    /\ boot.calls = 0

C15_Witness ==
  /\ boot.effect
  /\ \E p \in Params : ~boot.config[p]
  /\ \E p \in Params : boot.config[p]
  /\ Screen = "notConfigured"
\* The blocks of the given type that an export emitted for image j of point i
\* (j = 0: for the point itself).
Emitted(type, i, j) ==
  { k \in DOMAIN export.out :
      export.out[k].type = type /\ export.out[k].point = i /\ export.out[k].image = j }

\* C16: in both exports an image that cannot be fetched or decoded is the
\* only thing skipped and the export still returns true with every point
\* and every other image: the PDF has one placeholder line in place of the
\* failed image, the DOCX has nothing in its place.
C16_ImageFailureSkipped ==
  export.pc = "done" =>
    /\ export.result = "true"
    /\ \A i \in DOMAIN export.rep :
         /\ Cardinality(Emitted("heading", i, 0)) = 1
         /\ Cardinality(Emitted("text", i, 0)) = 1
         /\ \A j \in DOMAIN export.rep[i].images :
              IF << i, j >> \in export.failed
              THEN /\ Emitted("image", i, j) = {}
                   /\ Cardinality(Emitted("placeholder", i, j))
                        = IF export.kind = "pdf" THEN 1 ELSE 0
              ELSE /\ Cardinality(Emitted("image", i, j)) = 1
                   /\ Emitted("placeholder", i, j) = {}

C16_Witness ==
  /\ export.pc = "done"
  /\ export.kind = "pdf"
  /\ \E i \in DOMAIN export.rep : \E j, l \in DOMAIN export.rep[i].images :
       /\ j < l
       /\ << i, j >> \in export.failed
       /\ << i, l >> \notin export.failed

\* C17: in the PDF every image drawn at 100% of the printable width lies
\* within the printable area of one page: an image whose height exceeds the
\* space left on the page is started on a new page.
C17_ImageOnOnePage ==
  export.kind = "pdf" =>
    \A k \in DOMAIN export.out :
      (export.out[k].type = "image" /\ export.out[k].label = "100") =>
        /\ export.out[k].y >= mm(MARGINS.TOP)
        /\ export.out[k].y + export.out[k].h <= mm(a4Height - MARGINS.BOTTOM)

\* The height a report without images needs: header, points, separators.
RECURSIVE pointsHeight(_)
pointsHeight(points) ==
  IF points = <<>> THEN 0
  ELSE lineHeight(FONT_SIZES.HEADING_3) + Head(points).lines * lineHeight(FONT_SIZES.BODY)
       + mm(2 + 5) + (IF Tail(points) = <<>> THEN 0 ELSE mm(5 + 5))
       + pointsHeight(Tail(points))

headerHeight ==
  lineHeight(FONT_SIZES.TITLE) + lineHeight(FONT_SIZES.HEADING_2)
  + lineHeight(FONT_SIZES.META) + mm(4 + 2 + 10 + 10)

TextTypes == {"title", "area", "generated", "heading", "text"}

\* C18: in the PDF of a report without images a page is added only when the
\* next block does not fit in the printable height left on the page (and a
\* block that does not fit and is no taller than a page is never drawn
\* across the bottom margin); a report whose header and points need less
\* than one printable page has exactly 1 page.
C18_PageOnlyWhenNeeded ==
  (export.kind = "pdf" /\ imageCount(export.rep) = 0) =>
    /\ \A k \in DOMAIN export.out :
         /\ export.out[k].type = "addPage" =>
              export.out[k].y + export.out[k].h > mm(a4Height - MARGINS.BOTTOM)
         /\ export.out[k].type \in TextTypes =>
              \/ export.out[k].y + export.out[k].h <= mm(a4Height - MARGINS.BOTTOM)
              \/ export.out[k].h > mm(a4Height - MARGINS.TOP - MARGINS.BOTTOM)
    /\ (headerHeight + pointsHeight(export.rep)
          < mm(a4Height - MARGINS.TOP - MARGINS.BOTTOM)) => export.pages <= 1
    /\ (export.pc = "done" /\ headerHeight + pointsHeight(export.rep)
          < mm(a4Height - MARGINS.TOP - MARGINS.BOTTOM)) => export.pages = 1

C18_Witness ==
  /\ export.pc = "done"
  /\ export.kind = "pdf"
  /\ imageCount(export.rep) = 0
  /\ Len(export.rep) = MaxPoints
  /\ export.pages > 1
  /\ \E k \in DOMAIN export.out : export.out[k].type = "addPage"

ContentTypes == {"heading", "text", "image", "placeholder"}

IsContent(it) == it.type \in ContentTypes

\* The points and images among the emitted blocks, in emission order.
Content(out) ==
  LET c == SelectSeq(out, IsContent)
  IN [k \in DOMAIN c |->
        [type |-> c[k].type, point |-> c[k].point, image |-> c[k].image,
         label |-> IF c[k].type = "heading" THEN c[k].label ELSE ""]]

RECURSIVE imagesInOrder(_, _, _)
imagesInOrder(e, i, j) ==
  IF j > Len(e.rep[i].images) THEN <<>>
  ELSE (IF << i, j >> \notin e.failed
        THEN << [type |-> "image", point |-> i, image |-> j, label |-> ""] >>
        ELSE IF e.kind = "pdf"
        THEN << [type |-> "placeholder", point |-> i, image |-> j, label |-> ""] >>
        ELSE <<>>)
       \o imagesInOrder(e, i, j + 1)

RECURSIVE pointsInOrder(_, _)
pointsInOrder(e, i) ==
  IF i > Len(e.rep) THEN <<>>
  ELSE << [type |-> "heading", point |-> i, image |-> 0,
           label |-> "Point #" \o ToString(i)],
          [type |-> "text", point |-> i, image |-> 0, label |-> ""] >>
       \o imagesInOrder(e, i, 1) \o pointsInOrder(e, i + 1)

IsPrefix(s, t) == Len(s) <= Len(t) /\ SubSeq(t, 1, Len(s)) = s

\* C19: both exports emit the points in report order under the headings
\* Point #1 .. Point #N and, inside each point, its text and then its images
\* in the order of the image list; nothing is emitted twice or out of order.
C19_DocumentOrder ==
  export.kind # "none" =>
    /\ IsPrefix(Content(export.out), pointsInOrder(export, 1))
    /\ export.pc = "done" => Content(export.out) = pointsInOrder(export, 1)

C19_Witness ==
  /\ export.pc = "done"
  /\ export.kind = "docx"
  /\ Len(export.rep) = MaxPoints
  /\ Len(export.rep[1].images) >= 2
  /\ export.failed = {}
Larger(a, b) == IF a > b THEN a ELSE b

Distance(a, b) == IF a > b THEN a - b ELSE b - a

\* C20: compressing a readable image whose larger dimension exceeds 800
\* yields an image whose larger dimension is 800 and whose other dimension
\* is the original one scaled by the same factor, to within one pixel; an
\* image with both dimensions within 800 is yielded at its own size.
C20_CappedAspect ==
  (img.phase \in {"resolved", "rejected"}) =>
    /\ img.phase = "resolved"
    /\ IF Larger(img.width, img.height) > MAX_WIDTH
       THEN /\ Larger(img.canvas.width, img.canvas.height) = MAX_WIDTH
            /\ Distance(img.canvas.width * img.height, img.canvas.height * img.width)
                 < Larger(img.width, img.height)
       ELSE img.canvas.width = img.width /\ img.canvas.height = img.height
\* The paths uploadImage has returned, with those of the loaded records.
Uploaded == {u.path : u \in sent} \cup {imagePath("u2", "r2", 0)}

PathsOf(rep) ==
  UNION { Range(rep.points[i].imagePaths) : i \in DOMAIN rep.points }

\* C21: every image path in a point's image list, in the list of reports
\* and in the store, was returned by an earlier successful upload and is
\* images/{userId}/{reportId}/{name} with the userId and the id of the
\* report that holds it.
C21_PathsUploadedAndScoped ==
  \A rep \in Range(reports) \cup {store[id] : id \in DOMAIN store} :
    rep # NoReport =>
      \A path \in PathsOf(rep) :
        /\ path \in Uploaded
        /\ path.userId = rep.userId
        /\ path.reportId = rep.id

C21_Witness ==
  /\ \E rep \in Range(reports) :
       /\ rep.userId = currentUserId
       /\ \E i \in DOMAIN rep.points :
            /\ Len(rep.points[i].imagePaths) >= 2
            /\ \A n \in DOMAIN rep.points[i].imagePaths :
                 rep.points[i].imagePaths[n] \in {u.path : u \in sent}
  /\ \E id \in DOMAIN store : store[id] # NoReport /\ store[id].userId = currentUserId
       /\ PathsOf(store[id]) # {}
\* C22: removing an image (by the owner) removes exactly that path from the
\* point's list, starts a saveReport call with the resulting report at once
\* and makes one deleteImage call for that path; whether or not that call
\* fails, the list stays without the path and no message is shown.
C22_RemoveImage ==
  [][ (history'.op = "handleRemoveImage" /\ ops' = ops + 1 /\ isOwner) =>
        \E i \in DOMAIN localReport.points :
          \E n \in DOMAIN localReport.points[i].imagePaths :
            LET paths   == localReport.points[i].imagePaths
                updated == updatePoint(localReport, localReport.points[i].id,
                                       "imagePaths", Without(paths, n))
            IN /\ Find(reports', activeReportId) = updated
               /\ inflight' = Append(inflight, [kind |-> "save", rep |-> updated])
               /\ blobs' \in {blobs, blobs \ {paths[n]}}
               /\ toast' = toast
    ]_vars
\* C23: removing a point and deleting a report make no call to storage:
\* every blob, those of the images they referenced included, stays.
C23_NoBlobCascade ==
  [][ ( \/ history'.op = "removePoint" /\ ops' = ops + 1
        \/ history'.op = "handleDelete" /\ ops' = ops + 1
        \/ deletes' # deletes ) =>
        (blobs' = blobs /\ nUploads' = nUploads) ]_vars

C23_Witness ==
  /\ store["r1"] = NoReport
  /\ Find(reports, "r1") = NoReport
  /\ \E path \in blobs : path.reportId = "r1"
SlugChars == AsciiLower \cup AsciiUpper \cup Digits \cup {"_"}

\* C24: an export names its file Report_<slug>.pdf or Report_<slug>.docx;
\* the slug is the title with every character that is not an ASCII letter
\* or digit replaced by the separator, it is the same for the PDF and the
\* DOCX of one title, and it holds only ASCII letters, digits and "_".
C24_FileName ==
  export.pc = "done" =>
    LET title == export.title
        file  == export.file
        slug  == SubSeq(file, 2, Len(file) - 1)
    IN /\ Len(file) = Len(title) + 2
       /\ file[1] = "Report_"
       /\ file[Len(file)] = IF export.kind = "pdf" THEN ".pdf" ELSE ".docx"
       /\ \A k \in DOMAIN title :
            /\ slug[k] \in SlugChars
            /\ IF title[k] \in AsciiLower \cup AsciiUpper \cup Digits
               THEN toLowerCase(slug[k]) = toLowerCase(title[k])
               ELSE slug[k] = "_"
       /\ slug = safeTitle(title)
       /\ slug = docxSafeTitle(title)

C24_Witness ==
  /\ export.pc = "done"
  /\ export.kind = "docx"
  /\ Len(export.title) = MaxTitle
  /\ \E k \in DOMAIN export.title : export.title[k] = "Z"
  /\ \E k \in DOMAIN export.title : export.title[k] = "é"
\* C25: while a report is being edited, if the sync status is "saved", no
\* debounce timeout is pending and no saveReport call is in flight, the
\* stored record of the report equals the editor's local copy.
C25_SavedMeansStored ==
  (EditorShown /\ syncStatus = "saved" /\ timers = <<>> /\ inflight = <<>>) =>
    store[activeReportId] = localReport
\* The reports a delete call has been issued for: the call is pending, or
\* it has removed the record.
DeleteIssued ==
  {deletes[k].id : k \in DOMAIN deletes} \cup {id \in ReportIds : store[id] = NoReport}

\* C26: once the delete call for a report has been issued, no saveReport
\* call for that report is issued, and the deleted record does not come
\* back into the store.
C26_NoPutAfterDelete ==
  [][ /\ Len(inflight') > Len(inflight) =>
           Last(inflight').rep.id \notin DeleteIssued
      /\ \A id \in ReportIds : store[id] = NoReport => store'[id] = NoReport
    ]_vars

\* The report `rep` with `paths` appended to the image list of point pid.
WithPaths(rep, pid, paths) ==
  [rep EXCEPT !.points = [i \in DOMAIN @ |->
     IF @[i].id = pid THEN [@[i] EXCEPT !.imagePaths = @ \o paths] ELSE @[i]]]

\* C27: when an upload or a capture completes, the report becomes the
\* report as it is at that moment with the new paths appended to the point's
\* list, locally and in the saveReport call: whatever changed while the
\* upload ran is kept.
C27_UploadKeepsChanges ==
  [][ (history'.op = "uploadImage" /\ nUploads' = nUploads + 1) =>
        \E k \in DOMAIN uploads :
          LET up  == uploads[k]
              old == Find(reports, up.rep.id)
              new == WithPaths(old, up.pid,
                       BatchPaths(up, imagePath(up.rep.userId, up.rep.id, nUploads')))
          IN /\ Cardinality(StillPending(up.files)) = 1
             /\ old # NoReport =>
                  /\ Find(reports', up.rep.id) = new
                  /\ Len(inflight') = Len(inflight) + 1
                  /\ Last(inflight').rep = new
    ]_vars
\* C28: the ids of the points of a report are pairwise distinct, and so are
\* the ids of the reports in the list, also when two of them were made
\* within one millisecond of the clock.
C28_DistinctIds ==
  /\ \A rep \in Range(reports) :
       \A i, j \in DOMAIN rep.points :
         i # j => rep.points[i].id # rep.points[j].id
  /\ \A i, j \in DOMAIN reports : i # j => reports[i].id # reports[j].id
PointOps == {"addPoint", "updateText", "removePoint", "handleRemoveImage"}

\* C29: updatePoint changes only the point with the given id, removePoint
\* removes only that point, addPoint appends one point with empty text and
\* no images; every other point keeps its content and place, every other
\* report is unchanged, and id, userId and createdAt of the report stay.
C29_PointFrame ==
  [][ (history'.op \in PointOps \cup {"updateField"} /\ ops' = ops + 1) =>
        LET old == localReport
            new == Find(reports', activeReportId)
        IN /\ Len(reports') = Len(reports)
           /\ \A k \in DOMAIN reports :
                reports[k].id # old.id => reports'[k] = reports[k]
           /\ new.id = old.id /\ new.userId = old.userId
           /\ new.createdAt = old.createdAt
           /\ history'.op = "updateField" => new.points = old.points
           /\ history'.op \in {"updateText", "handleRemoveImage"} =>
                /\ Len(new.points) = Len(old.points)
                /\ \E i \in DOMAIN old.points :
                     \A j \in DOMAIN old.points :
                       j # i => new.points[j] = old.points[j]
           /\ history'.op = "removePoint" =>
                (isOwner => \E i \in DOMAIN old.points :
                              new.points = Without(old.points, i))
           /\ history'.op = "addPoint" =>
                (isOwner => /\ Len(new.points) = Len(old.points) + 1
                            /\ new.points = Append(old.points,
                                  ReportPoint(Last(new.points).id, "", <<>>)))
    ]_vars
\* C30: when the saveReport call of createReport or the delete call of
\* deleteReport fails, the list of reports and the active report are
\* unchanged, and the action can be started again: the New Report button is
\* not left disabled (isCreating) and the delete button of that report is not
\* left disabled (deletingId).
C30_FailureLeavesListUsable ==
  [][ /\ history'.op = "createFailed" =>
           /\ reports' = reports /\ activeReportId' = activeReportId
           /\ ~isCreating'
      /\ history'.op = "deleteFailed" =>
           /\ reports' = reports /\ activeReportId' = activeReportId
           /\ deletingId' # Head(deletes).id
    ]_vars
====
